---------------------------- MODULE Spec2Model ----------------------------
(***************************************************************************)
(* Model of api/book.js: the booking endpoint (method gate, JSON body,    *)
(* validation, signed-cookie rate limit, SMS dispatch).                    *)
(*                                                                         *)
(* JavaScript strings are sequences of one-character strings.  JavaScript  *)
(* values are tagged records [type |-> ...].  The HMAC-SHA256 digest is    *)
(* modelled symbolically: its base64url text is an injective image of      *)
(* (key, message) over symbols that are not cookie metacharacters.         *)
(***************************************************************************)
EXTENDS Integers, Sequences, FiniteSets, TLC

\* ------------------------------------------------------------ bounds
\* Requests handled in one behaviour of Spec.
MaxRequests == 3
\* Longest phone string enumerated by SpecPhone.
MaxPhoneLen == 8
\* Most characters of a phone string that are not digits.
MaxOdd == 3
\* SpecToken enumerates every timestamp 0..MaxTs (plus the large ones of TokenTimes).
MaxTs == 120

\* ------------------------------------------------------------ program constants
\* now - prevTs < 60_000
WINDOW == 60000
\* const MAX_AGE = 60 * 60 * 24
MAX_AGE == 86400
\* the {6,} of /^\+?\d[\d\s-]{6,}$/
PhoneMinTail == 6

\* ------------------------------------------------------------ characters
\* The printable ASCII characters in code order: AsciiPrintable[i] has code 31 + i.
AsciiPrintable ==
    << " ", "!", "\"", "#", "$", "%", "&", "'", "(", ")", "*", "+", ",", "-", ".", "/",
       "0", "1", "2", "3", "4", "5", "6", "7", "8", "9", ":", ";", "<", "=", ">", "?",
       "@", "A", "B", "C", "D", "E", "F", "G", "H", "I", "J", "K", "L", "M", "N", "O",
       "P", "Q", "R", "S", "T", "U", "V", "W", "X", "Y", "Z", "[", "\\", "]", "^", "_",
       "(backtick)", "a", "b", "c", "d", "e", "f", "g", "h", "i", "j", "k", "l", "m", "n", "o",
       "p", "q", "r", "s", "t", "u", "v", "w", "x", "y", "z", "{", "|", "}", "~" >>

\* The base64 alphabet of Buffer.toString("base64"): B64Alphabet[i] encodes i - 1.
B64Alphabet ==
    << "A", "B", "C", "D", "E", "F", "G", "H", "I", "J", "K", "L", "M", "N", "O", "P",
       "Q", "R", "S", "T", "U", "V", "W", "X", "Y", "Z", "a", "b", "c", "d", "e", "f",
       "g", "h", "i", "j", "k", "l", "m", "n", "o", "p", "q", "r", "s", "t", "u", "v",
       "w", "x", "y", "z", "0", "1", "2", "3", "4", "5", "6", "7", "8", "9", "+", "/" >>

Digits == << "0", "1", "2", "3", "4", "5", "6", "7", "8", "9" >>

Range(s) == { s[i] : i \in DOMAIN s }

\* The function taking each element of the sequence s (from index k on) to its index.
RECURSIVE IndexTable(_, _)
IndexTable(s, k) ==
    IF k = Len(s) THEN s[k] :> k ELSE (s[k] :> k) @@ IndexTable(s, k + 1)

\* The code of each printable ASCII character, less 31.
AsciiIndex == IndexTable(AsciiPrintable, 1)

\* UTF-8 code of an ASCII character; 9, 10, 13 for tab, LF, CR.
Ord(c) ==
    IF c = "\t" THEN 9
    ELSE IF c = "\n" THEN 10
    ELSE IF c = "\r" THEN 13
    ELSE 31 + AsciiIndex[c]

DigitSet == Range(Digits)

\* \d
IsDigit(c) == c \in DigitSet

\* \s, and the characters String.prototype.trim strips.
IsSpace(c) == c \in { " ", "\t", "\n", "\r" }

\* ------------------------------------------------------------ String methods
RECURSIVE TrimStart(_)
TrimStart(s) ==
    IF s # << >> /\ IsSpace(Head(s)) THEN TrimStart(Tail(s)) ELSE s

RECURSIVE TrimEnd(_)
TrimEnd(s) ==
    IF s # << >> /\ IsSpace(s[Len(s)]) THEN TrimEnd(SubSeq(s, 1, Len(s) - 1)) ELSE s

\* String.prototype.trim
Trim(s) == TrimEnd(TrimStart(s))

\* String.prototype.indexOf for a one-character needle, 1-based; 0 for JavaScript's -1.
RECURSIVE IndexFrom(_, _, _)
IndexFrom(s, c, k) ==
    IF k > Len(s) THEN 0
    ELSE IF s[k] = c THEN k
    ELSE IndexFrom(s, c, k + 1)

IndexOf(s, c) == IndexFrom(s, c, 1)

\* String.prototype.split for a one-character separator: "".split(",") is [""].
RECURSIVE Split(_, _)
Split(s, sep) ==
    LET i == IndexOf(s, sep)
    IN  IF i = 0 THEN << s >>
        ELSE << SubSeq(s, 1, i - 1) >> \o Split(SubSeq(s, i + 1, Len(s)), sep)

\* Decimal text of a non-negative integer (Number to string, JSON.stringify of a number).
RECURSIVE NatToDigits(_)
NatToDigits(n) ==
    IF n < 10 THEN << Digits[n + 1] >>
    ELSE NatToDigits(n \div 10) \o << Digits[(n % 10) + 1] >>

IntToDigits(n) == IF n < 0 THEN << "-" >> \o NatToDigits(0 - n) ELSE NatToDigits(n)

DigitValue(c) == Ord(c) - Ord("0")

RECURSIVE DigitsToNat(_)
DigitsToNat(s) ==
    IF s = << >> THEN 0
    ELSE 10 * DigitsToNat(SubSeq(s, 1, Len(s) - 1)) + DigitValue(s[Len(s)])

\* ------------------------------------------------------------ JavaScript values
Undefined == [type |-> "undefined"]
Null == [type |-> "null"]
Num(n) == [type |-> "number", num |-> n]
Str(s) == [type |-> "string", str |-> s]
\* An object with own properties props (a function from property names to values).
Obj(props) == [type |-> "object", props |-> props]

\* o.k for an object o: undefined when o has no property k.
Get(o, k) == IF k \in DOMAIN o.props THEN o.props[k] ELSE Undefined

\* ToBoolean(v) is false: the falsy values (!v).
Falsy(v) ==
    \/ v.type \in { "undefined", "null" }
    \/ v.type = "string" /\ v.str = << >>
    \/ v.type = "number" /\ v.num = 0

\* String(v) for the primitive values of the model.
JSString(v) ==
    IF v.type = "string" THEN v.str
    ELSE IF v.type = "number" THEN IntToDigits(v.num)
    ELSE IF v.type = "null" THEN << "n", "u", "l", "l" >>
    ELSE << "u", "n", "d", "e", "f", "i", "n", "e", "d" >>

\* ------------------------------------------------------------ Buffer, base64
\* Buffer.from(s, "utf8") for ASCII text: the bytes of s.
Utf8Bytes(s) == [i \in DOMAIN s |-> Ord(s[i])]

\* buf.toString("utf8"): a byte outside printable ASCII becomes a character no JSON
\* token of the model contains.
Utf8String(b) ==
    [i \in DOMAIN b |-> IF b[i] \in 32..126 THEN AsciiPrintable[b[i] - 31] ELSE "(byte)"]

B64Char(v) == B64Alphabet[v + 1]

\* buf.toString("base64"): three bytes to four characters, "=" padding at the end.
RECURSIVE Base64Encode(_)
Base64Encode(b) ==
    IF Len(b) = 0 THEN << >>
    ELSE IF Len(b) = 1
    THEN << B64Char(b[1] \div 4), B64Char((b[1] % 4) * 16), "=", "=" >>
    ELSE IF Len(b) = 2
    THEN << B64Char(b[1] \div 4), B64Char((b[1] % 4) * 16 + b[2] \div 16),
            B64Char((b[2] % 16) * 4), "=" >>
    ELSE << B64Char(b[1] \div 4), B64Char((b[1] % 4) * 16 + b[2] \div 16),
            B64Char((b[2] % 16) * 4 + b[3] \div 64), B64Char(b[3] % 64) >>
         \o Base64Encode(SubSeq(b, 4, Len(b)))

\* The index of each character of the base64 alphabet: one more than its six bits.
B64Index == IndexTable(B64Alphabet, 1)

B64Chars == Range(B64Alphabet)

\* The six bits of a base64 character (both alphabets are accepted), 64 if illegal.
Unbase64(c) ==
    IF c \in B64Chars THEN B64Index[c] - 1
    ELSE IF c = "-" THEN 62
    ELSE IF c = "_" THEN 63
    ELSE 64

RECURSIVE DecodeGroups(_)
DecodeGroups(v) ==
    IF Len(v) < 2 THEN << >>
    ELSE IF Len(v) = 2 THEN << v[1] * 4 + v[2] \div 16 >>
    ELSE IF Len(v) = 3
    THEN << v[1] * 4 + v[2] \div 16, (v[2] % 16) * 16 + v[3] \div 4 >>
    ELSE << v[1] * 4 + v[2] \div 16, (v[2] % 16) * 16 + v[3] \div 4,
            (v[3] % 4) * 64 + v[4] >>
         \o DecodeGroups(SubSeq(v, 5, Len(v)))

\* Buffer.from(s, "base64"): decoding stops at the first "=", illegal characters
\* are skipped, a trailing partial group gives the bytes it completes.
Base64Decode(s) ==
    LET stop == IndexOf(s, "=")
        body == IF stop = 0 THEN s ELSE SubSeq(s, 1, stop - 1)
        vals == [i \in DOMAIN body |-> Unbase64(body[i])]
        IsLegal(v) == v < 64
    IN  DecodeGroups(SelectSeq(vals, IsLegal))

\* ------------------------------------------------------------ JSON
\* JSON.stringify({ ts }) for an integer ts.
JSONstringify(payload) ==
    << "{", "\"", "t", "s", "\"", ":" >> \o IntToDigits(payload.ts) \o << "}" >>

\* The JSON grammar of an integer: -?(0|[1-9][0-9]*).
IsJSONInt(s) ==
    LET d == IF s # << >> /\ s[1] = "-" THEN Tail(s) ELSE s
    IN  /\ d # << >>
        /\ \A i \in DOMAIN d : IsDigit(d[i])
        /\ (Len(d) > 1 => d[1] # "0")

JSONIntValue(s) ==
    IF s[1] = "-" THEN 0 - DigitsToNat(Tail(s)) ELSE DigitsToNat(s)

TsPrefix == << "{", "\"", "t", "s", "\"", ":" >>

\* JSON.parse on the texts of the model: null, {}, {"ts":<integer>}, {"ts":null};
\* any other text of the model is no JSON text and raises SyntaxError (ok = FALSE).
JSONparse(text) ==
    LET n == Len(text)
        inner == SubSeq(text, Len(TsPrefix) + 1, n - 1)
    IN  IF text = << "n", "u", "l", "l" >> THEN [ok |-> TRUE, value |-> Null]
        ELSE IF text = << "{", "}" >> THEN [ok |-> TRUE, value |-> Obj(<< >>)]
        ELSE IF /\ n > Len(TsPrefix) + 1
                /\ SubSeq(text, 1, Len(TsPrefix)) = TsPrefix
                /\ text[n] = "}"
        THEN IF IsJSONInt(inner)
             THEN [ok |-> TRUE, value |-> Obj([ts |-> Num(JSONIntValue(inner))])]
             ELSE IF inner = << "n", "u", "l", "l" >>
             THEN [ok |-> TRUE, value |-> Obj([ts |-> Null])]
             ELSE [ok |-> FALSE, value |-> Undefined]
        ELSE [ok |-> FALSE, value |-> Undefined]

\* ------------------------------------------------------------ state
VARIABLES
    env,          \* process.env: the six variables the handler reads
    now,          \* Date.now()
    nreq,         \* requests received so far
    pc,           \* "idle", "sending" (inside the for loop over OWNERS), "done"
    req,          \* the request being handled
    res,          \* its response: status, JSON body, Set-Cookie header
    at,           \* index in OWNERS of the recipient the loop is at (1-based)
    successes,    \* let successes
    failures,     \* let failures
    fetches,      \* the fetch calls made for this request, in order: the To of each
                  \* and whether the provider accepted the message
    jar,          \* the client's cookie jar: the rl cookie it last received, with the
                  \* time, client key and status of the response that set it
    lastAccepted, \* the last POST that passed validation and was not answered 429
    limitedSince, \* the 429 responses since lastAccepted
    tok           \* SpecToken: a token issued for (ts, xff) and what parsing it gave

vars == << env, now, nreq, pc, req, res, at, successes, failures, fetches, jar,
           lastAccepted, limitedSince, tok >>

\* ------------------------------------------------------------ helpers of book.js
\* A variant of validPhone that matches the string as it came, untrimmed.
validPhoneUntrimmed(v) ==
    IF Falsy(v) THEN FALSE
    ELSE LET s == JSString(v)
             r == IF s # << >> /\ s[1] = "+" THEN Tail(s) ELSE s
         IN  /\ Len(r) >= 1 + PhoneMinTail
             /\ IsDigit(r[1])
             /\ \A k \in 2..Len(r) : IsDigit(r[k]) \/ IsSpace(r[k]) \/ r[k] = "-"

\* function validPhone(v): /^\+?\d[\d\s-]{6,}$/ on the trimmed string.
validPhone(v) ==
    IF Falsy(v) THEN FALSE
    ELSE LET s == Trim(JSString(v))
             r == IF s # << >> /\ s[1] = "+" THEN Tail(s) ELSE s
         IN  /\ Len(r) >= 1 + PhoneMinTail
             /\ IsDigit(r[1])
             /\ \A k \in 2..Len(r) : IsDigit(r[k]) \/ IsSpace(r[k]) \/ r[k] = "-"

COOKIE_NAME == << "r", "l" >>

\* The key of createHmac when RATE_LIMIT_SECRET is unset: secret || "weak-secret".
WeakSecret == << "w", "e", "a", "k", "-", "s", "e", "c", "r", "e", "t" >>

\* One symbol of a digest's base64url text; it is none of ";", "=", ".", a space.
SigSym(c) == "h:" \o c

\* crypto.createHmac("sha256", key).update(msg).digest("base64url"): HMAC-SHA256
\* as an injective function of (key, msg), its text free of cookie metacharacters.
HmacSha256B64Url(key, msg) ==
    [k \in DOMAIN key |-> SigSym(key[k])] \o << "h/" >> \o [k \in DOMAIN msg |-> SigSym(msg[k])]

\* A variant of sign that leaves the client key out of the signed message.
signNoClient(payloadB64, secret, keyExtra) ==
    HmacSha256B64Url(IF secret = << >> THEN WeakSecret ELSE secret, payloadB64)

\* function sign(payloadB64, secret, keyExtra)
sign(payloadB64, secret, keyExtra) ==
    HmacSha256B64Url(IF secret = << >> THEN WeakSecret ELSE secret,
                     payloadB64 \o << "|" >> \o keyExtra)

\* function clientKey(req): first comma-separated part of X-Forwarded-For, trimmed.
clientKey(r) ==
    LET xff == r.headers.xff
        ip == Trim(Split(xff, ",")[1])
    IN  IF ip = << >> THEN << "u", "n", "k", "n", "o", "w", "n" >> ELSE ip

\* A variant of CookiePart that splits at the last "=" (lastIndexOf) of the part.
CookiePartLastEq(p) ==
    LET Eq(k) == p[k] = "="
        eqs == { k \in DOMAIN p : Eq(k) }
        e == IF eqs = { } THEN 0 ELSE CHOOSE k \in eqs : \A j \in eqs : j <= k
    IN  [has |-> e > 0,
         name |-> SubSeq(p, 1, e - 1),
         value |-> SubSeq(p, e + 1, Len(p))]

\* One assignment out[name] = value of parseCookie, or no assignment (i = -1).
CookiePart(p) ==
    LET k == IndexOf(p, "=")
    IN  [has |-> k > 0,
         name |-> SubSeq(p, 1, k - 1),
         value |-> SubSeq(p, k + 1, Len(p))]

\* function parseCookie(h): the assignments to out, in order.
parseCookie(h) ==
    IF h = << >> THEN << >>
    ELSE LET parts == Split(h, ";")
             assigned == [k \in DOMAIN parts |-> CookiePart(Trim(parts[k]))]
             Has(a) == a.has
         IN  SelectSeq(assigned, Has)

\* out[name]: the value last assigned, undefined when none was.
Lookup(out, name) ==
    LET Named(a) == a.name = name
        hits == SelectSeq(out, Named)
    IN  IF hits = << >> THEN Undefined ELSE Str(hits[Len(hits)].value)

\* function parseRateCookie(cookieHeader, req): null, or { ts } with a numeric ts.
parseRateCookie(cookieHeader, r) ==
    LET cookie == Lookup(parseCookie(cookieHeader), COOKIE_NAME)
    IN  IF Falsy(cookie) THEN Null
        ELSE LET parts == Split(cookie.str, ".")
                 payloadB64 == parts[1]
                 sigB64 == IF Len(parts) >= 2 THEN parts[2] ELSE << >>
             IN  IF payloadB64 = << >> \/ sigB64 = << >> THEN Null
                 ELSE IF sigB64 # sign(payloadB64, env.RATE_LIMIT_SECRET, clientKey(r))
                 THEN Null
                 ELSE LET parsed == JSONparse(Utf8String(Base64Decode(payloadB64)))
                      IN  IF ~parsed.ok THEN Null
                          ELSE IF parsed.value.type # "object" THEN Null
                          ELSE IF Get(parsed.value, "ts").type # "number" THEN Null
                          ELSE Obj([ts |-> Get(parsed.value, "ts")])

CookieAttributes ==
    << ";", " ", "P", "a", "t", "h", "=", "/", ";", " ", "H", "t", "t", "p", "O", "n", "l", "y",
       ";", " ", "S", "a", "m", "e", "S", "i", "t", "e", "=", "L", "a", "x",
       ";", " ", "M", "a", "x", "-", "A", "g", "e", "=" >> \o NatToDigits(MAX_AGE)

\* A variant of buildRateCookie that stamps the token in seconds.
buildRateCookieSeconds(ts, r) ==
    LET payloadB64 == Base64Encode(Utf8Bytes(JSONstringify([ts |-> ts \div 1000])))
        sigB64 == sign(payloadB64, env.RATE_LIMIT_SECRET, clientKey(r))
    IN  COOKIE_NAME \o << "=" >> \o payloadB64 \o << "." >> \o sigB64 \o CookieAttributes

\* async function buildRateCookie(ts, req)
buildRateCookie(ts, r) ==
    LET payloadB64 == Base64Encode(Utf8Bytes(JSONstringify([ts |-> ts])))
        sigB64 == sign(payloadB64, env.RATE_LIMIT_SECRET, clientKey(r))
    IN  COOKIE_NAME \o << "=" >> \o payloadB64 \o << "." >> \o sigB64 \o CookieAttributes

\* const OWNERS = (process.env.OWNERS_SMS_NUMBERS || "").split(",").map(trim).filter(Boolean)
OWNERS ==
    LET parts == Split(env.OWNERS_SMS_NUMBERS, ",")
        trimmed == [k \in DOMAIN parts |-> Trim(parts[k])]
        NonEmpty(p) == p # << >>
    IN  SelectSeq(trimmed, NonEmpty)

\* A variant of NotConfigured without the OWNERS.length === 0 test.
NotConfiguredNoRecipients ==
    \/ env.TWILIO_ACCOUNT_SID = << >>
    \/ env.TWILIO_AUTH_TOKEN = << >>
    \/ (env.TWILIO_FROM = << >> /\ env.TWILIO_MESSAGING_SERVICE_SID = << >>)

\* The condition of line 70: "Server SMS not configured".
NotConfigured ==
    \/ env.TWILIO_ACCOUNT_SID = << >>
    \/ env.TWILIO_AUTH_TOKEN = << >>
    \/ (env.TWILIO_FROM = << >> /\ env.TWILIO_MESSAGING_SERVICE_SID = << >>)
    \/ Len(OWNERS) = 0

\* ------------------------------------------------------------ requests and responses
\* The text of a request body, by what JSON.parse makes of it.
EmptyText == [kind |-> "empty", value |-> Undefined]
BadText == [kind |-> "malformed", value |-> Undefined]
JsonText(v) == [kind |-> "json", value |-> v]
\* The request stream emits "error": readRaw rejects.
StreamError == [kind |-> "error", value |-> Undefined]

\* raw ? JSON.parse(raw) : {}, inside the try of lines 22-27.
ParseText(t) ==
    IF t.kind = "empty" THEN [ok |-> TRUE, value |-> Obj(<< >>)]
    ELSE IF t.kind = "json" THEN [ok |-> TRUE, value |-> t.value]
    ELSE [ok |-> FALSE, value |-> Undefined]

\* Lines 20-28: req.body is used as it is when it is a parsed object; a string body
\* is parsed; a missing body is read from the stream (readRaw) and parsed.
ParseBody(body) ==
    IF body.tag = "parsed" THEN [ok |-> TRUE, value |-> body.content]
    ELSE ParseText(body.content)

\* Lines 32-34: the error list of the validation.
Validate(data) ==
    (IF Falsy(Get(data, "adress")) THEN << "Adress saknas" >> ELSE << >>)
    \o (IF ~validPhone(Get(data, "telefon")) THEN << "Telefon ogiltigt" >> ELSE << >>)

NoReq ==
    [method |-> "", body |-> [tag |-> "parsed", content |-> Undefined],
     headers |-> [cookie |-> << >>, xff |-> << >>]]

\* A response: status 0 while none was sent. setCookie is the Set-Cookie header
\* (res.setHeader), << >> when it was never set.
Response(status, ok, error, details, sent, failed, setCookie) ==
    [status |-> status, ok |-> ok, error |-> error, details |-> details,
     sent |-> sent, failed |-> failed, setCookie |-> setCookie]

NoRes == Response(0, FALSE, "", << >>, 0, 0, << >>)

\* No cookie held, no request accepted yet.
NoCookie == [valid |-> FALSE, ts |-> 0, key |-> << >>, cookie |-> << >>, status |-> 0]

\* What a browser stores of a Set-Cookie header and sends back: name=value.
NameValue(setCookie) == SubSeq(setCookie, 1, IndexOf(setCookie, ";") - 1)

\* ------------------------------------------------------------ the handler
\* A variant of handlerEnd whose 502 response loses the Set-Cookie header.
handlerEndBare502(s, f, setCookie) ==
    IF s = 0
    THEN Response(502, FALSE, "SMS send failed", << >>, 0, 0, << >>)
    ELSE Response(200, TRUE, "", << >>, s, f, setCookie)

\* Lines 102-108: the response after the loop.
handlerEnd(s, f, setCookie) ==
    IF s = 0
    THEN Response(502, FALSE, "SMS send failed", << >>, 0, 0, setCookie)
    ELSE Response(200, TRUE, "", << >>, s, f, setCookie)

\* A variant of RateLimited whose window is closed at its far end (<=).
RateLimitedInclusive(prevTs, t) == prevTs.type = "number" /\ t - prevTs.num <= WINDOW

\* Line 42: typeof prevTs === "number" && now - prevTs < 60_000
RateLimited(prevTs, t) == prevTs.type = "number" /\ t - prevTs.num < WINDOW

\* A variant of rateLimit whose 429 response carries a token stamped now, so that
\* every attempt restarts the window.
rateLimitSliding(r, t) ==
    LET prev == parseRateCookie(r.headers.cookie, r)
        prevTs == IF prev.type = "null" THEN Undefined ELSE Get(prev, "ts")
        setCookie == buildRateCookie(t, r)
    IN  IF RateLimited(prevTs, t)
        THEN [pc |-> "done",
              res |-> Response(429, FALSE, "Rate limited", << >>, 0, 0, setCookie)]
        ELSE IF NotConfigured
        THEN [pc |-> "done",
              res |-> Response(500, FALSE, "Server SMS not configured", << >>, 0, 0,
                               setCookie)]
        ELSE IF Len(OWNERS) = 0
        THEN [pc |-> "done", res |-> handlerEnd(0, 0, setCookie)]
        ELSE [pc |-> "sending", res |-> Response(0, FALSE, "", << >>, 0, 0, setCookie)]

\* Lines 37-75 for a validated request r at time t: 429, or the Set-Cookie header
\* is set and the response is 500 (not configured), or the loop over OWNERS is
\* entered (status 0, pc "sending"); an empty OWNERS would skip the loop.  Nothing
\* in the try block throws in the model, so its catch is never entered.
rateLimit(r, t) ==
    LET prev == parseRateCookie(r.headers.cookie, r)
        prevTs == IF prev.type = "null" THEN Undefined ELSE Get(prev, "ts")
        setCookie == buildRateCookie(t, r)
    IN  IF RateLimited(prevTs, t)
        THEN [pc |-> "done", res |-> Response(429, FALSE, "Rate limited", << >>, 0, 0, << >>)]
        ELSE IF NotConfigured
        THEN [pc |-> "done",
              res |-> Response(500, FALSE, "Server SMS not configured", << >>, 0, 0,
                               setCookie)]
        ELSE IF Len(OWNERS) = 0
        THEN [pc |-> "done", res |-> handlerEnd(0, 0, setCookie)]
        ELSE [pc |-> "sending", res |-> Response(0, FALSE, "", << >>, 0, 0, setCookie)]

\* A variant of handlerStart that runs the rate limit before the validation: a
\* request that fails validation is answered 429 inside the window, and 400 with
\* a fresh token outside it.
handlerStartLimitFirst(r, t) ==
    LET parsed == ParseBody(r.body)
        data == IF Falsy(parsed.value) THEN Obj(<< >>) ELSE parsed.value
        errs == Validate(data)
        limit == rateLimit(r, t)
    IN  IF r.method = "OPTIONS"
        THEN [pc |-> "done", res |-> Response(200, FALSE, "", << >>, 0, 0, << >>)]
        ELSE IF r.method # "POST"
        THEN [pc |-> "done",
              res |-> Response(405, FALSE, "Method not allowed", << >>, 0, 0, << >>)]
        ELSE IF ~parsed.ok
        THEN [pc |-> "done",
              res |-> Response(400, FALSE, "Invalid JSON body", << >>, 0, 0, << >>)]
        ELSE IF limit.res.status = 429 THEN limit
        ELSE IF errs # << >>
        THEN [pc |-> "done",
              res |-> Response(400, FALSE, "Validation error", errs, 0, 0,
                               limit.res.setCookie)]
        ELSE limit

\* Lines 8-35 for request r arriving at time t: the method gate, the body, the
\* validation; a validated request goes on to rateLimit.
handlerStart(r, t) ==
    LET parsed == ParseBody(r.body)
        data == IF Falsy(parsed.value) THEN Obj(<< >>) ELSE parsed.value
        errs == Validate(data)
    IN  IF r.method = "OPTIONS"
        THEN [pc |-> "done", res |-> Response(200, FALSE, "", << >>, 0, 0, << >>)]
        ELSE IF r.method # "POST"
        THEN [pc |-> "done",
              res |-> Response(405, FALSE, "Method not allowed", << >>, 0, 0, << >>)]
        ELSE IF ~parsed.ok
        THEN [pc |-> "done",
              res |-> Response(400, FALSE, "Invalid JSON body", << >>, 0, 0, << >>)]
        ELSE IF errs # << >>
        THEN [pc |-> "done",
              res |-> Response(400, FALSE, "Validation error", errs, 0, 0, << >>)]
        ELSE rateLimit(r, t)

\* What one fetch call can give: a rejection (thrown), or a response with resp.ok
\* and a JSON body that has a sid or not.
FetchOutcomes ==
    { [thrown |-> TRUE, ok |-> FALSE, sid |-> FALSE] }
    \cup { [thrown |-> FALSE, ok |-> o, sid |-> sd] : o \in BOOLEAN, sd \in BOOLEAN }

\* A variant of Succeeded that trusts the HTTP status alone.
SucceededByStatus(o) == ~o.thrown /\ o.ok

\* Lines 95-99: resp.ok && json && json.sid counts a success, all else a failure.
Succeeded(o) == ~o.thrown /\ o.ok /\ o.sid

\* The provider accepted the message: a 2xx response whose body names the message.
Accepted(o) == o = [thrown |-> FALSE, ok |-> TRUE, sid |-> TRUE]

\* ------------------------------------------------------------ inputs
Addr == << "S", "t", "o", "r", "g", "a", "t", "a", "n", " ", "1" >>
GoodPhone == << "0", "7", "0", "1", "2", "3", "4", "5", "6", "7" >>
BadPhone == << "1", "2", "3" >>

GoodData == Obj([adress |-> Str(Addr), telefon |-> Str(GoodPhone)])
NoAddressData == Obj([telefon |-> Str(GoodPhone)])
BadPhoneData == Obj([adress |-> Str(Addr), telefon |-> Str(BadPhone)])

\* Bodies that pass validation: pre-parsed, a string, read from the stream.
ValidBodies ==
    { [tag |-> "parsed", content |-> GoodData],
      [tag |-> "string", content |-> JsonText(GoodData)],
      [tag |-> "absent", content |-> JsonText(GoodData)] }

\* Bodies that fail JSON parsing or validation.
InvalidBodies ==
    { [tag |-> "parsed", content |-> NoAddressData],
      [tag |-> "parsed", content |-> BadPhoneData],
      [tag |-> "string", content |-> BadText],
      [tag |-> "string", content |-> JsonText(Null)],
      [tag |-> "absent", content |-> EmptyText],
      [tag |-> "absent", content |-> StreamError] }

\* X-Forwarded-For headers: absent, and a proxy chain whose first hop is 7.
XffValues == { << >>, << " ", "7", " ", ",", "8" >> }

\* The clock advances by one of these between two requests.
Deltas == { 1, WINDOW - 1 }

StartTime == 2 * WINDOW

NullText == << "n", "u", "l", "l" >>

\* A token made by someone who knows only the fallback key: payload text signed
\* under "weak-secret" for client key k.
Forge(text, k) ==
    LET payloadB64 == Base64Encode(Utf8Bytes(text))
    IN  COOKIE_NAME \o << "=" >> \o payloadB64 \o << "." >> \o sign(payloadB64, << >>, k)

\* The parts of a stored cookie rl=<payload>.<signature>.
JarPayload(c) == SubSeq(c, Len(COOKIE_NAME) + 2, IndexOf(c, ".") - 1)
JarSig(c) == SubSeq(c, IndexOf(c, ".") + 1, Len(c))

\* Cookie c with the last byte of its signature flipped.
FlipSignature(c) == SubSeq(c, 1, Len(c) - 1) \o << "h:?" >>

\* Cookie c with its payload replaced by that of { ts: 0 }, the signature kept.
ReplacePayload(c) ==
    COOKIE_NAME \o << "=" >> \o Base64Encode(Utf8Bytes(JSONstringify([ts |-> 0])))
        \o << "." >> \o JarSig(c)

\* Cookie c without its signature part.
DropSignature(c) == COOKIE_NAME \o << "=" >> \o JarPayload(c)

\* Cookie c after another cookie in the same header.
BesideAnother(c) == << "a", "=", "b", ";", " " >> \o c

\* Cookie c tampered with.
Tampered(c) == { FlipSignature(c), ReplacePayload(c), DropSignature(c) }

\* Forged tokens for client key k at time t: one from the future, one exactly
\* WINDOW old, one whose payload is the JSON text null.
Forged(t, k) ==
    { Forge(JSONstringify([ts |-> t + 1]), k),
      Forge(JSONstringify([ts |-> t - WINDOW]), k),
      Forge(NullText, k) }

\* The client key the handler derives from an X-Forwarded-For header x.
KeyOf(x) == clientKey([headers |-> [xff |-> x]])

\* The Cookie headers a client holding cookie c may send at time t with client
\* key k: none, its cookie as it is or tampered with, and forged ones.
CookieChoices(c, t, k) ==
    { << >> } \cup (IF k = KeyOf(<< >>) THEN Forged(t, k) ELSE { })
    \cup (IF c = << >> THEN { } ELSE { c, BesideAnother(c) } \cup Tampered(c))

Request(method, body, cookie, xff) ==
    [method |-> method, body |-> body, headers |-> [cookie |-> cookie, xff |-> xff]]

\* The requests that may arrive at time t from the client holding cookie jar: a
\* valid booking with any of the Cookie headers above, and every other body and
\* method with the cookie of the jar.
Requests(t) ==
    UNION { { Request("POST", [tag |-> "parsed", content |-> GoodData], c, x) :
                c \in CookieChoices(jar.cookie, t, KeyOf(x)) } :
            x \in XffValues }
    \cup { Request("POST", b, jar.cookie, << >>) : b \in ValidBodies \cup InvalidBodies }
    \cup { Request(m, [tag |-> "parsed", content |-> GoodData], jar.cookie, << >>) :
             m \in { "OPTIONS", "GET" } }

Secret == << "k" >>
Sid == << "A", "C" >>
AuthToken == << "t" >>
From == << "+", "4", "6" >>
MssSid == << "M", "G" >>

Env(secret, sid, token, from, mss, owners) ==
    [RATE_LIMIT_SECRET |-> secret, TWILIO_ACCOUNT_SID |-> sid, TWILIO_AUTH_TOKEN |-> token,
     TWILIO_FROM |-> from, TWILIO_MESSAGING_SERVICE_SID |-> mss,
     OWNERS_SMS_NUMBERS |-> owners]

\* A complete configuration: a sender number, two recipients, no signing secret.
EnvFrom == Env(<< >>, Sid, AuthToken, From, << >>, << "1", ",", "2" >>)

\* Configurations: two complete ones (EnvFrom; a messaging service and a list
\* with blanks), and one for each way of being incomplete.
Envs ==
    { EnvFrom,
      Env(Secret, Sid, AuthToken, << >>, MssSid, << " ", "1", ",", " ", ",", "2", " " >>),
      Env(Secret, << >>, AuthToken, From, MssSid, << "1" >>),
      Env(<< >>, Sid, << >>, From, << >>, << "1" >>),
      Env(Secret, Sid, AuthToken, << >>, << >>, << "1" >>),
      Env(<< >>, Sid, AuthToken, From, << >>, << " ", ",", " " >>) }

NoTok == [ts |-> 0, xff |-> << >>, cookie |-> << >>, parsed |-> Null]

\* ------------------------------------------------------------ actions
Init ==
    /\ env \in Envs
    /\ now = StartTime
    /\ nreq = 0
    /\ pc = "idle"
    /\ req = NoReq
    /\ res = NoRes
    /\ at = 1
    /\ successes = 0
    /\ failures = 0
    /\ fetches = << >>
    /\ jar = NoCookie
    /\ lastAccepted = NoCookie
    /\ limitedSince = 0
    /\ tok = NoTok

\* export default async function handler(req, res), up to its response or to the
\* first fetch: request r arrives d after the previous one.
handler(r, d) ==
    LET t == now + d
        out == handlerStart(r, t)
    IN  /\ pc = "idle"
        /\ now' = t
        /\ nreq' = nreq + 1
        /\ req' = r
        /\ res' = out.res
        /\ pc' = out.pc
        /\ UNCHANGED << env, at, successes, failures, fetches, jar, lastAccepted,
                        limitedSince, tok >>

\* A request arrives.
Book ==
    /\ pc = "idle"
    /\ nreq < MaxRequests
    /\ \E d \in Deltas : \E r \in Requests(now + d) : handler(r, d)

\* One iteration of for (const to of OWNERS), lines 78-100: one fetch, counted as
\* a success or a failure; after the last recipient, lines 102-108 respond.
Send ==
    /\ pc = "sending"
    /\ \E o \in FetchOutcomes :
           LET s == IF Succeeded(o) THEN successes + 1 ELSE successes
               f == IF Succeeded(o) THEN failures ELSE failures + 1
           IN  /\ fetches' = Append(fetches, [to |-> OWNERS[at], accepted |-> Accepted(o)])
               /\ successes' = s
               /\ failures' = f
               /\ at' = at + 1
               /\ IF at = Len(OWNERS)
                  THEN /\ res' = handlerEnd(s, f, res.setCookie)
                       /\ pc' = "done"
                  ELSE /\ res' = res
                       /\ pc' = "sending"
    /\ UNCHANGED << env, now, nreq, req, jar, lastAccepted, limitedSince, tok >>

\* The client receives the response and stores the cookie of its Set-Cookie
\* header.  A POST answered 200, 500 or 502 passed validation and was not
\* rate-limited: it becomes lastAccepted.
Receive ==
    /\ pc = "done"
    /\ pc' = "idle"
    /\ jar' = IF res.setCookie # << >>
              THEN [valid |-> TRUE, ts |-> now, key |-> clientKey(req),
                    cookie |-> NameValue(res.setCookie), status |-> res.status]
              ELSE jar
    /\ lastAccepted' =
           IF req.method = "POST" /\ res.status \in { 200, 500, 502 }
           THEN [valid |-> TRUE, ts |-> now, key |-> clientKey(req),
                 cookie |-> NameValue(res.setCookie), status |-> res.status]
           ELSE lastAccepted
    /\ limitedSince' =
           IF req.method = "POST" /\ res.status \in { 200, 500, 502 } THEN 0
           ELSE IF res.status = 429 THEN limitedSince + 1
           ELSE limitedSince
    /\ req' = NoReq
    /\ res' = NoRes
    /\ at' = 1
    /\ successes' = 0
    /\ failures' = 0
    /\ fetches' = << >>
    /\ UNCHANGED << env, now, nreq, tok >>

Next == Book \/ Send \/ Receive

Spec == Init /\ [][Next]_vars

\* ------------------------------------------------------------ SpecPhone
\* One booking whose telefon is missing, or is a string of up to MaxPhoneLen
\* characters: the digit 7 everywhere but at up to MaxOdd places, which hold a
\* "+", a space, a tab, a hyphen or a letter.
NonDigits == { "+", " ", "\t", "-", "x" }

PhoneString(n, odd, f) == [k \in 1..n |-> IF k \in odd THEN f[k] ELSE "7"]

PhoneRequest(v) ==
    Request("POST",
            [tag |-> "parsed", content |-> Obj([adress |-> Str(Addr), telefon |-> v])],
            << >>, << >>)

InitPhone ==
    /\ Init
    /\ env = EnvFrom

BookPhone ==
    /\ pc = "idle"
    /\ \/ \E n \in 0..MaxPhoneLen :
              \E odd \in { o \in SUBSET (1..n) : Cardinality(o) <= MaxOdd } :
                  \E f \in [odd -> NonDigits] :
                      handler(PhoneRequest(Str(PhoneString(n, odd, f))), 1)
       \/ handler(PhoneRequest(Undefined), 1)

SpecPhone == InitPhone /\ [][BookPhone]_vars

\* ------------------------------------------------------------ SpecToken
\* Timestamps: every one up to MaxTs, and larger ones up to the largest 32-bit one.
TokenTimes ==
    (0..MaxTs) \cup { 999, 1000, WINDOW - 1, WINDOW, StartTime, 1234567890, 2147483647 }

TokenXffs ==
    { << >>, << " ", "7", " ", ",", "8" >>, << "1", ".", "2" >>, << "x", "|", "y" >> }

InitToken ==
    /\ Init
    /\ env.TWILIO_FROM # << >>

\* buildRateCookie(t, req), and parseRateCookie on the cookie sent back by the
\* same client (same X-Forwarded-For) under the same secret.
IssueToken ==
    /\ tok = NoTok
    /\ \E t \in TokenTimes, x \in TokenXffs :
           LET r == Request("POST", [tag |-> "parsed", content |-> GoodData], << >>, x)
               c == buildRateCookie(t, r)
           IN  tok' = [ts |-> t, xff |-> x, cookie |-> c,
                       parsed |-> parseRateCookie(NameValue(c), r)]
    /\ UNCHANGED << env, now, nreq, pc, req, res, at, successes, failures, fetches, jar,
                    lastAccepted, limitedSince >>

SpecToken == InitToken /\ [][IssueToken]_vars

\* ------------------------------------------------------------ properties
\* A POST whose body passes validation is being handled or has been answered.
ValidatedPost == pc # "idle" /\ req.method = "POST" /\ req.body \in ValidBodies

\* A request that fails the method check, JSON parsing or validation.
FailsEarly ==
    /\ pc # "idle"
    /\ \/ req.method = "GET"
       \/ req.method = "POST" /\ req.body \in InvalidBodies

\* The request went past the rate limit: it is in the loop over the recipients,
\* or it was answered by the configuration check or after the loop.
PassedToNotifier ==
    \/ pc = "sending" /\ res.status = 0
    \/ pc = "done" /\ res.status \in { 200, 500, 502 }

\* The timestamps of the tokens in the Cookie header of req that verify under the
\* server secret and the client key of req, by the way the header was made: the
\* token the server issued to this client key, alone or beside another cookie, or
\* a token signed with the fallback key while the server has no secret of its own.
ValidTokenTimes ==
    LET c == req.headers.cookie
        k == KeyOf(req.headers.xff)
        issued == jar.valid /\ c \in { jar.cookie, BesideAnother(jar.cookie) } /\ k = jar.key
        unset == c # << >> /\ ~issued /\ env.RATE_LIMIT_SECRET = << >>
    IN  (IF issued THEN { jar.ts } ELSE { })
        \cup (IF unset /\ c = Forge(JSONstringify([ts |-> now + 1]), k)
              THEN { now + 1 } ELSE { })
        \cup (IF unset /\ c = Forge(JSONstringify([ts |-> now - WINDOW]), k)
              THEN { now - WINDOW } ELSE { })

\* C1: a validated POST is answered 429 "Rate limited" if and only if its Cookie
\* header carries a token that verifies under the server secret and the client key
\* and whose timestamp ts has now - ts < 60000; otherwise it proceeds to the notifier.
C1_LimitedIffFreshValidToken ==
    ValidatedPost =>
        /\ (res.status = 429) <=> (\E ts \in ValidTokenTimes : now - ts < WINDOW)
        /\ res.status = 429 => pc = "done" /\ res.error = "Rate limited" /\ ~res.ok
        /\ res.status # 429 => PassedToNotifier

\* C1 happens: a token one millisecond short of 60 seconds old still limits.
C1_Witness ==
    /\ ValidatedPost
    /\ res.status = 429
    /\ ValidTokenTimes = { now - (WINDOW - 1) }

\* The response carries a Set-Cookie header whose token verifies for the client of
\* req and is stamped with the time of the request.
HasFreshToken ==
    /\ res.setCookie # << >>
    /\ LET p == parseRateCookie(NameValue(res.setCookie), req)
       IN  p.type = "object" /\ Get(p, "ts") = Num(now)

\* C2 as stated: every validated POST gets a Set-Cookie header with a token stamped
\* now; requests failing the method check, JSON parsing or validation get none.
C2_EveryValidatedPostGetsToken ==
    /\ ValidatedPost => HasFreshToken
    /\ FailsEarly => res.setCookie = << >>

\* C2: every validated POST that is not rate-limited gets a Set-Cookie header with
\* a token stamped now, whatever follows (500, 502 or 200); requests failing the
\* method check, JSON parsing or validation get none.
C2_EveryAdmittedPostGetsToken ==
    /\ ValidatedPost /\ res.status # 429 => HasFreshToken
    /\ FailsEarly => res.setCookie = << >>

\* C2 happens: every send failed, and the 502 response carries the fresh token.
C2_Witness ==
    /\ ValidatedPost
    /\ pc = "done"
    /\ res.status = 502
    /\ fetches # << >>
    /\ HasFreshToken

\* C3: a request answered 405, 400 "Invalid JSON body" or 400 "Validation error"
\* has set no cookie and made no outbound call; requests failing the method check,
\* JSON parsing or validation are answered so, whatever cookie they carry.
C3_NoSideEffectBeforeValidation ==
    /\ pc # "idle" /\ res.status \in { 400, 405 } =>
           /\ pc = "done"
           /\ res.setCookie = << >>
           /\ fetches = << >>
           /\ res.error \in { "Method not allowed", "Invalid JSON body", "Validation error" }
    /\ FailsEarly => res.status = IF req.method = "GET" THEN 405 ELSE 400

\* C3 happens: a request failing validation is answered 400 although it carries a
\* token that would have limited it, and the client's slot is as it was.
C3_Witness ==
    /\ FailsEarly
    /\ res.status = 400
    /\ res.error = "Validation error"
    /\ jar.valid
    /\ req.headers.cookie = jar.cookie
    /\ now - jar.ts < WINDOW
    /\ lastAccepted.ts = jar.ts

\* C4: the cookie of buildRateCookie(t) for a client key, sent back with the same
\* client key under the same secret, is parsed to exactly { ts: t }.
C4_TokenRoundTrip ==
    tok.cookie # << >> =>
        /\ tok.parsed.type = "object"
        /\ DOMAIN tok.parsed.props = { "ts" }
        /\ Get(tok.parsed, "ts") = Num(tok.ts)

\* C4 happens: a ten-digit timestamp, a payload with base64 padding, a client key
\* holding the separator of the signed message.
C4_Witness ==
    /\ tok.ts = 1234567890
    /\ tok.xff = << "x", "|", "y" >>
    /\ "=" \in Range(JarPayload(NameValue(tok.cookie)))
    /\ tok.parsed.type = "object"

\* The Cookie header of req carries an rl cookie whose signature part is not the
\* HMAC of its payload part under the server secret and the client key of req, or
\* whose payload cannot be decoded, by the way the header was made.
InvalidToken ==
    LET c == req.headers.cookie
        k == KeyOf(req.headers.xff)
    IN  /\ c # << >>
        /\ \/ jar.valid /\ c \in Tampered(jar.cookie)
           \/ jar.valid /\ c \in { jar.cookie, BesideAnother(jar.cookie) } /\ k # jar.key
           \/ env.RATE_LIMIT_SECRET # << >> /\ c \in Forged(now, k)
           \/ c = Forge(NullText, k)

\* C5: for a cookie with a modified signature, a modified payload, a token issued
\* for another client key, a missing part or an undecodable payload,
\* parseRateCookie returns no valid token, and the validated request that carries
\* it is not rate-limited and gets no error response of the rate limit.
C5_InvalidTokenFailsOpen ==
    ValidatedPost /\ InvalidToken =>
        /\ parseRateCookie(req.headers.cookie, req) = Null
        /\ res.status # 429
        /\ PassedToNotifier

\* C5 happens: the signature of a token still inside its window is modified, and
\* the request goes through.
C5_Witness ==
    /\ ValidatedPost
    /\ jar.valid
    /\ req.headers.cookie = FlipSignature(jar.cookie)
    /\ KeyOf(req.headers.xff) = jar.key
    /\ now - jar.ts < WINDOW
    /\ PassedToNotifier

\* The To of each outbound call made for req, in order.
Attempts == [k \in DOMAIN fetches |-> fetches[k].to]

\* The calls made for req that the provider accepted.
AcceptedCalls == { k \in DOMAIN fetches : fetches[k].accepted }

\* C6: a configured, validated, not rate-limited request makes one send per
\* recipient, in order, whatever the earlier sends gave; it is answered 200 with
\* ok:true iff at least one send succeeded, else 502 "SMS send failed"; on 200,
\* sent + failed is the number of recipients and sent >= 1.
C6_DispatchOutcome ==
    /\ pc = "sending" =>
           /\ res.status = 0
           /\ at <= Len(OWNERS)
           /\ Attempts = SubSeq(OWNERS, 1, at - 1)
    /\ ValidatedPost /\ ~NotConfigured /\ res.status # 429 /\ pc = "done" =>
           /\ Attempts = OWNERS
           /\ res.status = IF AcceptedCalls # { } THEN 200 ELSE 502
           /\ res.status = 200 =>
                  /\ res.ok
                  /\ res.sent = Cardinality(AcceptedCalls)
                  /\ res.sent + res.failed = Len(OWNERS)
                  /\ res.sent >= 1
           /\ res.status = 502 => ~res.ok /\ res.error = "SMS send failed"
    /\ pc = "done" /\ res.status \in { 200, 502 } /\ req.method = "POST" => Attempts = OWNERS

\* C6 happens: the first recipient's send fails, the second is still attempted and
\* succeeds, and the response is 200 with one sent and one failed.
C6_Witness ==
    /\ pc = "done"
    /\ res.status = 200
    /\ Len(fetches) = 2
    /\ ~fetches[1].accepted
    /\ fetches[2].accepted
    /\ res.sent = 1
    /\ res.failed = 1

\* C7: after a POST that passed validation and was not rate-limited (200, 500 or
\* 502), a valid POST from the same client key that sends back the cookie the
\* first one issued, less than 60 seconds later, is answered 429 "Rate limited".
C7_RepeatInsideWindowIsLimited ==
    /\ jar.valid => jar.status \in { 200, 500, 502 }
    /\ ValidatedPost /\ jar.valid /\ req.headers.cookie = jar.cookie
         /\ KeyOf(req.headers.xff) = jar.key /\ now - jar.ts < WINDOW =>
           /\ pc = "done"
           /\ res.status = 429
           /\ res.error = "Rate limited"
           /\ ~res.ok

\* C7 happens: the first request ended in 502 (every send failed) and the retry
\* inside the window is answered 429.
C7_Witness ==
    /\ ValidatedPost
    /\ jar.valid
    /\ jar.status = 502
    /\ req.headers.cookie = jar.cookie
    /\ KeyOf(req.headers.xff) = jar.key
    /\ now - jar.ts = WINDOW - 1
    /\ res.status = 429

\* The characters of the recipient list that are neither commas nor white space.
RecipientCharacters ==
    { k \in DOMAIN env.OWNERS_SMS_NUMBERS :
        env.OWNERS_SMS_NUMBERS[k] # "," /\ ~IsSpace(env.OWNERS_SMS_NUMBERS[k]) }

\* The notifier is misconfigured: the account id or the auth token is missing, the
\* sender number and the messaging-service id are both missing, or the recipient
\* list holds no recipient once trimmed.
Misconfigured ==
    \/ env.TWILIO_ACCOUNT_SID = << >>
    \/ env.TWILIO_AUTH_TOKEN = << >>
    \/ env.TWILIO_FROM = << >> /\ env.TWILIO_MESSAGING_SERVICE_SID = << >>
    \/ RecipientCharacters = { }

PhoneValue == Get(req.body.content, "telefon")

\* String s without its leading "+", when it has one.
AfterPlus(s) == IF s # << >> /\ s[1] = "+" THEN Tail(s) ELSE s

\* An optional leading "+" followed by at least 7 characters, each a digit, a
\* space or a hyphen.
PermissivePattern(s) ==
    /\ Len(AfterPlus(s)) >= 7
    /\ \A k \in DOMAIN AfterPlus(s) :
           IsDigit(AfterPlus(s)[k]) \/ AfterPlus(s)[k] \in { " ", "-" }

\* An optional leading "+", then a digit, then at least 6 characters, each a
\* digit, a white-space character or a hyphen.
DigitLedPattern(s) ==
    \E d \in 1..2 :
        /\ d = 2 <=> (s # << >> /\ s[1] = "+")
        /\ Len(s) >= d + 6
        /\ IsDigit(s[d])
        /\ \A k \in (d + 1)..Len(s) : IsDigit(s[k]) \/ IsSpace(s[k]) \/ s[k] = "-"

\* The response to a booking whose telefon was refused (its address is present).
PhoneRefused ==
    /\ pc = "done"
    /\ res.status = 400
    /\ res.error = "Validation error"
    /\ res.details = << "Telefon ogiltigt" >>

\* C9 as stated: the telefon is accepted exactly when, trimmed, it is an optional
\* "+" followed by at least 7 digits, spaces or hyphens; every other value is
\* refused with 400 and a phone message in details.
C9_PhoneMatchesPermissivePattern ==
    pc # "idle" =>
        IF PhoneValue.type = "string" /\ PermissivePattern(Trim(PhoneValue.str))
        THEN res.status # 400
        ELSE PhoneRefused

\* C9: the telefon is accepted exactly when, trimmed, it is an optional "+", then
\* a digit, then at least 6 digits, white-space characters or hyphens; every other
\* value (empty and missing ones too) is refused with 400 and a phone message in
\* details.
C9_PhoneMatchesDigitLedPattern ==
    pc # "idle" =>
        IF PhoneValue.type = "string" /\ DigitLedPattern(Trim(PhoneValue.str))
        THEN res.status # 400
        ELSE PhoneRefused

\* C9 happens: "+7 7-777" is accepted, the booking is on its way to the recipients.
C9_Witness ==
    /\ pc = "sending"
    /\ PhoneValue = Str(<< "+", "7", " ", "7", "-", "7", "7", "7" >>)
    /\ res.status = 0

\* C10: a request answered 429 sets no cookie and makes no outbound call; for a
\* client that replays its latest cookie, a valid POST 60 seconds or more after
\* its last request that was not rate-limited is not rate-limited, however many
\* 429 responses came in between.
C10_LimitedRequestHasNoEffect ==
    /\ pc # "idle" /\ res.status = 429 =>
           /\ pc = "done"
           /\ res.setCookie = << >>
           /\ fetches = << >>
    /\ limitedSince > 0 => jar = lastAccepted
    /\ ValidatedPost /\ lastAccepted.valid /\ req.headers.cookie = jar.cookie
         /\ now - lastAccepted.ts >= WINDOW =>
           /\ res.status # 429
           /\ PassedToNotifier

\* C10 happens: a 429 came between, and the request exactly 60 seconds after the
\* last admitted one, with the same client key and the latest cookie, goes through.
C10_Witness ==
    /\ ValidatedPost
    /\ lastAccepted.valid
    /\ limitedSince >= 1
    /\ req.headers.cookie = jar.cookie
    /\ KeyOf(req.headers.xff) = jar.key
    /\ now - lastAccepted.ts = WINDOW
    /\ PassedToNotifier

=============================================================================
